---- MODULE Spec2Model ----
(***************************************************************************)
(* Mercator Origins V1 telemetry decoder (decoders/mercator-origins-v1).   *)
(* The decoder keeps a byte buffer, an expected frame length and a start   *)
(* sample; every input event runs one iteration of Decoder.decode, which   *)
(* may hand the buffer to Decoder.decode_message.                          *)
(***************************************************************************)
EXTENDS Integers, Sequences, FiniteSets, TLC

(* ------------------------------------------------------------------ *)
(* Program constants                                                   *)
(* ------------------------------------------------------------------ *)
\* Python's None for the optional integers (expected_length, start_sample, DATA).
None == -1
\* len(data) < 114 / data[:114]
FRAME_LEN == 114
\* '<57H'
NWORDS == 57
\* data[:112]
CHECKSUM_LEN == 112

(* ------------------------------------------------------------------ *)
(* Bounds of the model                                                 *)
(* ------------------------------------------------------------------ *)
\* the byte source stops before the buffer would grow past MaxBuf bytes
MaxBuf == 116
\* number of frames the byte source starts (first byte into an empty buffer)
MaxFrames == 2
\* number of events that are not data bytes: events without a data byte, and
\* reset() calls by the host
MaxIrregular == 1
\* such events arrive while the buffer holds at most this many bytes
IdleWindow == 2
\* number of byte events of a sequence that is fed twice
MaxTape == 118

VARIABLES
    buffer,           \* self.buffer: sequence of bytes
    expected_length,  \* self.expected_length: None or 0..65535
    start_sample,     \* self.start_sample: None or a sample number
    samplenum,        \* self.samplenum: sample number of the current event
    emitted,          \* events put to out_ann during the last decode iteration
    calls,            \* decode_message calls of the last decode iteration
    lastev,           \* kind of the last step: "init", "data", "nodata", "reset"
    stream,           \* data bytes delivered since the assembler state was last empty
    first_ts,         \* sample number of the event that delivered stream[1]
    started,          \* frames started by the byte source
    nodata,           \* events without a data byte so far
    resets,           \* reset() calls so far
    srcframe,         \* bytes of the 114-byte chunk the source is sending
    wellformed,       \* every chunk sent since the last reset starts with word 0 = 114
    chunks,           \* 114-byte chunks completely sent since the last reset
    passes,           \* decode passes (calls that emitted events) since the last reset
    tape,             \* replay: input events recorded since the last reset
    todo,             \* replay: recorded events still to be fed again
    run,              \* replay: 0 = live, 1 = first run recorded, 2 = second run
    out1,             \* replay: output events of the first run, times relative
    out2,             \* replay: output events of the second run, times relative
    base,             \* replay: sample number at which the current run began
    ck_frame,         \* checksum study: the frame under study
    ck_flip,          \* checksum study: <<>> or <<byte index, bit>> flipped
    ck_fold,          \* checksum study: calc_checksum of the whole frame, or None
    attrs,            \* two instances: the attributes held in each attribute cell
    sent,             \* two instances: per instance, its sample number and its puts
    alone             \* two instances: per instance, a decoder fed its events only

decoder_vars == <<buffer, expected_length, start_sample, samplenum>>
trace_vars   == <<emitted, calls, lastev>>
env_vars     == <<stream, first_ts, started, nodata, resets, srcframe, wellformed, chunks, passes>>
replay_vars  == <<tape, todo, run, out1, out2, base>>
ck_vars      == <<ck_frame, ck_flip, ck_fold>>
two_vars     == <<attrs, sent, alone>>
vars == <<decoder_vars, trace_vars, env_vars, replay_vars, ck_vars, two_vars>>

(* ------------------------------------------------------------------ *)
(* Pure helpers                                                        *)
(* ------------------------------------------------------------------ *)
\* bit k of the natural a
Bit(a, k) == (a \div (2 ^ k)) % 2

\* bit k of a ^ b, in place
XorBit(a, b, k) == ((Bit(a, k) + Bit(b, k)) % 2) * (2 ^ k)

\* bit k of a | b, in place
OrBit(a, b, k) == (IF Bit(a, k) + Bit(b, k) > 0 THEN 1 ELSE 0) * (2 ^ k)

\* slip: | for ^
XorAsOr(a, b) ==
    OrBit(a, b, 0) + OrBit(a, b, 1) + OrBit(a, b, 2) + OrBit(a, b, 3)
  + OrBit(a, b, 4) + OrBit(a, b, 5) + OrBit(a, b, 6) + OrBit(a, b, 7)
  + OrBit(a, b, 8) + OrBit(a, b, 9) + OrBit(a, b, 10) + OrBit(a, b, 11)
  + OrBit(a, b, 12) + OrBit(a, b, 13) + OrBit(a, b, 14) + OrBit(a, b, 15)

\* slip: the fold adds the words modulo 2^16 in place of XOR
XorAsAdd(a, b) == (a + b) % 65536

\* Python's a ^ b on 16-bit unsigned words
Xor(a, b) ==
    XorBit(a, b, 0) + XorBit(a, b, 1) + XorBit(a, b, 2) + XorBit(a, b, 3)
  + XorBit(a, b, 4) + XorBit(a, b, 5) + XorBit(a, b, 6) + XorBit(a, b, 7)
  + XorBit(a, b, 8) + XorBit(a, b, 9) + XorBit(a, b, 10) + XorBit(a, b, 11)
  + XorBit(a, b, 12) + XorBit(a, b, 13) + XorBit(a, b, 14) + XorBit(a, b, 15)

\* struct.unpack('<H', data[i*2:(i*2)+2])[0], i counted from 0
unpack_H(data, i) == data[(2 * i) + 1] + (256 * data[(2 * i) + 2])

\* data[:n]
Slice(data, n) == SubSeq(data, 1, IF Len(data) < n THEN Len(data) ELSE n)

\* slip: "is not None" in place of truthiness, a zero length counts as known
TruthyNotNone(x) == x # None

\* Python truthiness of an optional integer: None and 0 are false
Truthy(x) == x # None /\ x # 0

(* ------------------------------------------------------------------ *)
(* Decoder.calc_checksum                                               *)
(* ------------------------------------------------------------------ *)
\* the loop "for i in range(words): checksum ^= word", from index i with the
\* value checksum; checksum is an unsigned integer at every iteration (testing
\* it also has the value computed iteration by iteration, as the loop does)
RECURSIVE checksum_loop(_, _, _)
checksum_loop(data, i, checksum) ==
    IF checksum \notin Nat \/ i >= Len(data) \div 2 THEN checksum
    ELSE checksum_loop(data, i + 1, Xor(checksum, unpack_H(data, i)))

calc_checksum(data) == checksum_loop(data, 0, 0)

(* ------------------------------------------------------------------ *)
(* Decoder.decode_float_from_words                                     *)
(* ------------------------------------------------------------------ *)
\* struct.pack('<HH', word1, word2) read back as '<f': the value is the float
\* whose IEEE-754 binary32 representation is these four bytes, least
\* significant first; the model carries the four bytes.
decode_float_from_words(word1, word2) ==
    <<word1 % 256, word1 \div 256, word2 % 256, word2 \div 256>>

(* ------------------------------------------------------------------ *)
(* Decoder.decode_message                                              *)
(* ------------------------------------------------------------------ *)
\* the annotation ids the class declares: the indices of the tuple annotations
annotations == 0..33

\* one self.put(ss, es, self.out_ann, [id, [text]]): the text is the format
\* string (label) with the values it renders
Put(ss, es, id, label, text) ==
    [id |-> id, ss |-> ss, es |-> es, label |-> label, text |-> text]

\* slip: integer division, the decimals lost
ScaledTruncated(w, divisor) == <<w \div divisor, 0>>

\* f'{w / 10.0:.1f}', f'{w / 100.0:.2f}', f'{w / 1000.0:.3f}' for a 16-bit w:
\* integer part and the decimals
Scaled(w, divisor) == <<w \div divisor, w % divisor>>

\* chr(w & 0xFF) + chr((w >> 8) & 0xFF): the two code points
Chars(w) == <<w % 256, (w \div 256) % 256>>

\* slip: the slice [:114] forgotten, the whole buffer unpacked
unpack_frame_whole(data) == data

\* data[:114], the bytes struct.unpack('<57H', ...) reads
unpack_frame(data) == Slice(data, FRAME_LEN)

\* slip: the slice [:112] forgotten, the checksum taken over the whole buffer
checksum_input_whole(data) == data

\* data[:112], the bytes handed to calc_checksum
checksum_input(data) == Slice(data, CHECKSUM_LEN)

\* the guard "if len(data) < 114: return"
too_short(data) == Len(data) < FRAME_LEN

\* words = struct.unpack('<57H', data[:114])
Words(data) == [i \in 0..(NWORDS - 1) |-> unpack_H(unpack_frame(data), i)]

\* the three floats of one IMU triple starting at word index k
Triple(words, k) ==
    << decode_float_from_words(words[k], words[k + 1]),
       decode_float_from_words(words[k + 2], words[k + 3]),
       decode_float_from_words(words[k + 4], words[k + 5]) >>

\* the puts of lines 96-192, ids 1..30
field_events(words, ss, es) ==
    << Put(ss, es, 1, "Length: %d bytes", <<words[0]>>),
       Put(ss, es, 2, "Message Type: %d", <<words[1]>>),
       Put(ss, es, 3, "Depth: %.1fm", Scaled(words[2], 10)),
       Put(ss, es, 4, "Water Pressure: %.2f", Scaled(words[3], 100)),
       Put(ss, es, 5, "Water Temp: %.1fC", Scaled(words[4], 10)),
       Put(ss, es, 6, "Enclosure Temp: %.1fC", Scaled(words[5], 10)),
       Put(ss, es, 7, "Humidity: %.1f%%", Scaled(words[6], 10)),
       Put(ss, es, 8, "Air Pressure: %.1f", Scaled(words[7], 10)),
       Put(ss, es, 9, "Heading: %.1f", Scaled(words[8], 10)),
       Put(ss, es, 10, "Heading to Target: %.1f", Scaled(words[9], 10)),
       Put(ss, es, 11, "Distance to Target: %.1fm", Scaled(words[10], 10)),
       Put(ss, es, 12, "Journey Course: %.1f", Scaled(words[11], 10)),
       Put(ss, es, 13, "Journey Distance: %.2fm", Scaled(words[12], 100)),
       Put(ss, es, 14, "Display: %s", Chars(words[13])),
       Put(ss, es, 15, "Uptime: %d min", <<words[14]>>),
       Put(ss, es, 16, "User Action: %d", <<words[15]>>),
       Put(ss, es, 17, "Bad Checksums: %d", <<words[16]>>),
       Put(ss, es, 18, "USB Voltage: %.3fV", Scaled(words[17], 1000)),
       Put(ss, es, 19, "USB Current: %.2fA", Scaled(words[18], 100)),
       Put(ss, es, 20, "Target: %s", Chars(words[19]) \o Chars(words[20])),
       Put(ss, es, 21, "Sensor Timing: %s",
           <<words[21], words[22], words[23], words[24], words[25], words[26]>>),
       Put(ss, es, 22, "Accel: X=%.3f, Y=%.3f, Z=%.3f", Triple(words, 27)),
       Put(ss, es, 23, "Gyro: X=%.3f, Y=%.3f, Z=%.3f", Triple(words, 33)),
       Put(ss, es, 24, "Lin Accel: X=%.3f, Y=%.3f, Z=%.3f", Triple(words, 39)),
       Put(ss, es, 25, "Rot Accel: X=%.3f, Y=%.3f, Z=%.3f", Triple(words, 45)),
       Put(ss, es, 26, "Good Checksums: %d", <<words[51]>>),
       Put(ss, es, 27, "Waymarker: %d", <<words[52]>>),
       Put(ss, es, 28, "Waymarker Label: %s", Chars(words[53])),
       Put(ss, es, 29, "Direction Metric: %s", Chars(words[54])),
       Put(ss, es, 30, "Flags: 0x%04X", <<words[55]>>) >>

\* slip: the valid-checksum put uses the declared but unused id 31 ('checksum')
checksum_event_declared(data, words, ss, es) ==
    LET received_checksum   == words[56]
        calculated_checksum == calc_checksum(checksum_input(data))
    IN  IF received_checksum = calculated_checksum
        THEN Put(ss, es, 31, "Checksum: 0x%04X", <<received_checksum>>)
        ELSE Put(ss, es, 33, "Checksum ERROR: got 0x%04X, expected 0x%04X",
                 <<received_checksum, calculated_checksum>>)

\* lines 194-201: the checksum put, id 32 or 33
checksum_event(data, words, ss, es) ==
    LET received_checksum   == words[56]
        calculated_checksum == calc_checksum(checksum_input(data))
        checksum_valid      == received_checksum = calculated_checksum
    IN  IF checksum_valid
        THEN Put(ss, es, 32, "Checksum OK: 0x%04X", <<received_checksum>>)
        ELSE Put(ss, es, 33, "Checksum ERROR: got 0x%04X, expected 0x%04X",
                 <<received_checksum, calculated_checksum>>)

\* line 203: the summary put, id 0
summary_event(data, words, ss, es) ==
    LET checksum_valid == words[56] = calc_checksum(checksum_input(data))
    IN  Put(ss, es, 0,
            IF checksum_valid
            THEN "Mercator Origins V1 Message (Length: %d, Type: %d, Checksum: OK)"
            ELSE "Mercator Origins V1 Message (Length: %d, Type: %d, Checksum: ERROR)",
            <<words[0], words[1]>>)

\* slip: the field events emitted only for a frame whose checksum is valid
decode_message_gated(data, ss, es) ==
    IF too_short(data) THEN << >>
    ELSE LET words == Words(data)
         IN  (IF words[56] = calc_checksum(checksum_input(data))
              THEN field_events(words, ss, es) ELSE << >>)
               \o << checksum_event(data, words, ss, es),
                     summary_event(data, words, ss, es) >>

\* decode_message(data, ss, es): the sequence of events it puts
decode_message(data, ss, es) ==
    IF too_short(data) THEN << >>
    ELSE LET words == Words(data)
         IN  field_events(words, ss, es)
               \o << checksum_event(data, words, ss, es),
                     summary_event(data, words, ss, es) >>

\* the record of one decode_message call: its arguments and, when the guard
\* lets it through, the bytes it unpacks into words
CallRecord(data, ss, es) ==
    [data |-> data, ss |-> ss, es |-> es,
     unpacked |-> IF too_short(data) THEN << >> ELSE <<unpack_frame(data)>>]

(* ------------------------------------------------------------------ *)
(* Decoder.reset and the steps of Decoder.decode                       *)
(* ------------------------------------------------------------------ *)
\* reset(): the three fields it assigns
reset_state == [buffer |-> << >>, expected_length |-> None, start_sample |-> None]

\* lines 209-210: if self.start_sample is None: self.start_sample = self.samplenum
note_start(start, sn) == IF start = None THEN sn ELSE start

\* slip: the length word read high byte first
fix_length_big_endian(exp, buf) ==
    IF exp = None /\ Len(buf) >= 2 THEN (256 * buf[1]) + buf[2] ELSE exp

\* slip: the length word read only when a third byte has arrived
fix_length_at_three(exp, buf) ==
    IF exp = None /\ Len(buf) >= 3 THEN unpack_H(Slice(buf, 2), 0) ELSE exp

\* lines 216-217: the length is read once, when the buffer holds two bytes
fix_length(exp, buf) ==
    IF exp = None /\ Len(buf) >= 2 THEN unpack_H(Slice(buf, 2), 0) ELSE exp

\* slip: > for >=, the frame completes one byte late
frame_complete_late(exp, buf) == Truthy(exp) /\ Len(buf) > exp

\* slip: == for >=, a buffer already longer than the length never completes
frame_complete_exact(exp, buf) == Truthy(exp) /\ Len(buf) = exp

\* line 219: if self.expected_length and len(self.buffer) >= self.expected_length
frame_complete(exp, buf) == Truthy(exp) /\ Len(buf) >= exp

\* slip: line 221 missing, the completed buffer is kept
after_frame_keep_buffer(buf, exp, ss) ==
    [buffer |-> buf, expected_length |-> None, start_sample |-> None]

\* lines 221-223: the fields after a completed frame, from the fields before
after_frame(buf, exp, ss) ==
    [buffer |-> << >>, expected_length |-> None, start_sample |-> None]

(* ------------------------------------------------------------------ *)
(* The byte source                                                     *)
(* ------------------------------------------------------------------ *)
\* length words the source puts in front of a frame
Lengths == {0, 1, 2, FRAME_LEN - 1, FRAME_LEN, FRAME_LEN + 1, FRAME_LEN + 256}

\* bit k of the XOR of the first n little-endian words of bytes: the parity of
\* the number of those words that have bit k set
ParityBit(bytes, n, k) ==
    (Cardinality({i \in 0..(n - 1) : Bit(unpack_H(bytes, i), k) = 1}) % 2) * (2 ^ k)

\* XOR of the first n little-endian words of bytes, as the sender computes it
SenderFold(bytes, n) ==
    ParityBit(bytes, n, 0) + ParityBit(bytes, n, 1) + ParityBit(bytes, n, 2)
  + ParityBit(bytes, n, 3) + ParityBit(bytes, n, 4) + ParityBit(bytes, n, 5)
  + ParityBit(bytes, n, 6) + ParityBit(bytes, n, 7) + ParityBit(bytes, n, 8)
  + ParityBit(bytes, n, 9) + ParityBit(bytes, n, 10) + ParityBit(bytes, n, 11)
  + ParityBit(bytes, n, 12) + ParityBit(bytes, n, 13) + ParityBit(bytes, n, 14)
  + ParityBit(bytes, n, 15)

\* payload byte at offset n of a frame of the given kind (kind = low byte of the
\* message type): kind 1 carries depth 150 and zeros, any other kind a ramp
PayloadByte(kind, n) ==
    IF kind = 1 THEN (IF n = 4 THEN 150 ELSE 0) ELSE n % 256

\* the bytes the source may deliver next, given the bytes of the frame so far
Choices(buf) ==
    LET n == Len(buf)
    IN  CASE n = 0 -> {l % 256 : l \in Lengths}
          [] n = 1 -> {l \div 256 : l \in {m \in Lengths : m % 256 = buf[1]}}
          [] n = 2 -> {0, 1}
          [] n > 2 /\ n < CHECKSUM_LEN -> {PayloadByte(buf[3], n)}
          [] n = CHECKSUM_LEN ->
                LET ck == SenderFold(buf, CHECKSUM_LEN \div 2)
                IN  {ck % 256, Xor(ck % 256, 1)}
          [] n = CHECKSUM_LEN + 1 ->
                {SenderFold(buf, CHECKSUM_LEN \div 2) \div 256}
          [] OTHER -> {0, 255}

(* ------------------------------------------------------------------ *)
(* Initial state                                                       *)
(* ------------------------------------------------------------------ *)
\* the decoder after __init__ (which calls reset), no event seen yet
InitDecoder ==
    /\ buffer = reset_state.buffer
    /\ expected_length = reset_state.expected_length
    /\ start_sample = reset_state.start_sample
    /\ samplenum = 0
    /\ emitted = << >>
    /\ calls = << >>
    /\ lastev = "init"

InitEnv ==
    /\ stream = << >>
    /\ first_ts = None
    /\ started = 0
    /\ nodata = 0
    /\ resets = 0
    /\ srcframe = << >>
    /\ wellformed = TRUE
    /\ chunks = 0
    /\ passes = 0

\* the decoder instances of the session, each constructed and not yet fed
Instances == {1, 2}

\* slip: the assembly fields kept on the class, one cell for all instances
cell_of_class(i) == 1

\* the attribute cell that holds the attributes of instance i: reset() assigns
\* self.buffer, self.expected_length and self.start_sample, attributes of the
\* instance itself
cell_of(i) == i

\* two instances after __init__, and a decoder per instance for its own stream
InitInstances ==
    /\ attrs = [c \in Instances |-> reset_state]
    /\ sent = [i \in Instances |-> [samplenum |-> 0, out |-> << >>]]
    /\ alone = [i \in Instances |-> [state |-> reset_state, out |-> << >>]]

InitIdle ==
    /\ tape = << >>
    /\ todo = << >>
    /\ run = 0
    /\ out1 = << >>
    /\ out2 = << >>
    /\ base = 0
    /\ ck_frame = << >>
    /\ ck_flip = << >>
    /\ ck_fold = None

Init == InitDecoder /\ InitEnv /\ InitIdle /\ InitInstances

(* ------------------------------------------------------------------ *)
(* One iteration of the loop of Decoder.decode                         *)
(* ------------------------------------------------------------------ *)
\* slip: an event without a data byte taken as the end of the frame, the
\* assembly state cleared
skip_event_flushes(ss) ==
    /\ start_sample' = None
    /\ buffer' = << >>
    /\ expected_length' = None
    /\ emitted' = << >>
    /\ calls' = << >>
    /\ lastev' = "nodata"

\* line 212 false: the iteration ends after lines 209-210, nothing else assigned
skip_event(ss) ==
    /\ start_sample' = ss
    /\ UNCHANGED <<buffer, expected_length>>
    /\ emitted' = << >>
    /\ calls' = << >>
    /\ lastev' = "nodata"

\* the iteration for an event whose DATA value is d (a byte, or None)
decode(d) ==
    LET sn    == samplenum + 1
        ss    == note_start(start_sample, sn)
        buf   == Append(buffer, d)
        exp   == fix_length(expected_length, buf)
        done  == frame_complete(exp, buf)
    IN  /\ samplenum' = sn
        /\ IF d = None
           THEN skip_event(ss)
           ELSE /\ IF done
                   THEN /\ buffer' = after_frame(buf, exp, ss).buffer
                        /\ expected_length' = after_frame(buf, exp, ss).expected_length
                        /\ start_sample' = after_frame(buf, exp, ss).start_sample
                        /\ emitted' = decode_message(buf, ss, sn)
                        /\ calls' = <<CallRecord(buf, ss, sn)>>
                   ELSE /\ buffer' = buf
                        /\ expected_length' = exp
                        /\ start_sample' = ss
                        /\ emitted' = << >>
                        /\ calls' = << >>
                /\ lastev' = "data"

\* what the byte source and the observer note about an event carrying d
observe(d) ==
    IF d = None
    THEN /\ nodata' = nodata + 1
         /\ UNCHANGED <<stream, first_ts, started, resets, srcframe, wellformed, chunks, passes>>
    ELSE LET chunk == IF Len(srcframe) = FRAME_LEN THEN <<d>> ELSE Append(srcframe, d)
         IN  /\ stream' = IF buffer = << >> THEN <<d>> ELSE Append(stream, d)
             /\ first_ts' = IF buffer = << >> THEN samplenum + 1 ELSE first_ts
             /\ started' = IF buffer = << >> THEN started + 1 ELSE started
             /\ srcframe' = chunk
             /\ wellformed' = (wellformed /\ (Len(chunk) = 2 => unpack_H(chunk, 0) = FRAME_LEN))
             /\ chunks' = IF Len(chunk) = FRAME_LEN THEN chunks + 1 ELSE chunks
             /\ passes' = IF emitted' # << >> THEN passes + 1 ELSE passes
             /\ UNCHANGED <<nodata, resets>>

\* an event with a data byte
DecodeData ==
    \E d \in Choices(buffer) :
        /\ Len(buffer) < MaxBuf
        /\ buffer = << >> => started < MaxFrames
        /\ decode(d)
        /\ observe(d)
        /\ UNCHANGED <<replay_vars, ck_vars, two_vars>>

\* an event whose DATA value is None
DecodeNoData ==
    /\ nodata + resets < MaxIrregular
    /\ Len(buffer) <= IdleWindow
    /\ decode(None)
    /\ observe(None)
    /\ UNCHANGED <<replay_vars, ck_vars, two_vars>>

\* slip: reset() without line 71, the buffer survives
reset_keeps_buffer ==
    /\ UNCHANGED buffer
    /\ expected_length' = None
    /\ start_sample' = None

\* reset(): lines 71-73
reset ==
    /\ buffer' = reset_state.buffer
    /\ expected_length' = reset_state.expected_length
    /\ start_sample' = reset_state.start_sample

\* what the observer notes about a reset(): nothing was put, the stream starts anew
observe_reset ==
    /\ emitted' = << >>
    /\ calls' = << >>
    /\ lastev' = "reset"
    /\ stream' = << >>
    /\ first_ts' = None
    /\ srcframe' = << >>
    /\ wellformed' = TRUE
    /\ chunks' = 0
    /\ passes' = 0
    /\ UNCHANGED <<samplenum, started, nodata>>

\* the host calls reset()
Reset ==
    /\ nodata + resets < MaxIrregular
    /\ Len(buffer) <= IdleWindow
    /\ reset
    /\ observe_reset
    /\ resets' = resets + 1
    /\ UNCHANGED <<replay_vars, ck_vars, two_vars>>

Next == DecodeData \/ DecodeNoData \/ Reset

Spec == Init /\ [][Next]_vars

(* ------------------------------------------------------------------ *)
(* A byte source that keeps delivering                                 *)
(* ------------------------------------------------------------------ *)
\* length words of frames the source can deliver to the end
LiveLengths == {l \in Lengths : l <= MaxBuf}

\* the bytes the source may deliver next: as Choices, the length word taken
\* from LiveLengths
LiveChoices(buf) ==
    CASE Len(buf) = 0 -> {l % 256 : l \in LiveLengths}
      [] Len(buf) = 1 -> {l \div 256 : l \in {m \in LiveLengths : m % 256 = buf[1]}}
      [] OTHER -> Choices(buf)

\* the source has a byte to deliver
CanDeliver ==
    /\ Len(buffer) < MaxBuf
    /\ buffer = << >> => started < MaxFrames

\* an event with a data byte
LiveData ==
    \E d \in LiveChoices(buffer) :
        /\ CanDeliver
        /\ decode(d)
        /\ observe(d)
        /\ UNCHANGED <<replay_vars, ck_vars, two_vars>>

NextLive == LiveData \/ DecodeNoData

\* what every LiveData step, and no other step of NextLive, does: the source
\* had a byte, the sample number advanced, a data byte was processed; enabled
\* exactly when LiveData is
ByteEventStep ==
    /\ CanDeliver
    /\ samplenum' = samplenum + 1
    /\ lastev' = "data"

\* self.wait() returns the next byte event whenever the source has one: a byte
\* event that stays possible is eventually processed
SpecLive == Init /\ [][NextLive]_vars /\ WF_<<samplenum, lastev>>(ByteEventStep)

(* ------------------------------------------------------------------ *)
(* Two decoder instances fed in any interleaving                       *)
(* ------------------------------------------------------------------ *)
\* one iteration of the loop of Decoder.decode as a function: from the three
\* assembly fields st, the DATA value d and the sample number sn of the event,
\* the fields afterwards and the events put
decode_step(st, d, sn) ==
    LET ss  == note_start(st.start_sample, sn)
        buf == Append(st.buffer, d)
        exp == fix_length(st.expected_length, buf)
    IN  IF d = None
        THEN [state |-> [st EXCEPT !.start_sample = ss], out |-> << >>]
        ELSE IF frame_complete(exp, buf)
             THEN [state |-> after_frame(buf, exp, ss),
                   out   |-> decode_message(buf, ss, sn)]
             ELSE [state |-> [buffer |-> buf, expected_length |-> exp,
                              start_sample |-> ss],
                   out   |-> << >>]

\* the bytes the source of instance i may deliver next, given the bytes of its
\* frame so far: instance 1 is sent frames of 114 bytes of kind 1, instance 2
\* frames of 115 bytes of kind 0
TwoChoices(i, buf) ==
    CASE Len(buf) = 0 -> {(FRAME_LEN + i - 1) % 256}
      [] Len(buf) = 1 -> {(FRAME_LEN + i - 1) \div 256}
      [] Len(buf) = 2 -> {i % 2}
      [] OTHER -> Choices(buf)

\* a byte event for instance i: its decode runs on the attributes of its cell;
\* the decoder of alone[i] is fed the same event
TwoData(i) ==
    /\ sent[i].samplenum < MaxBuf
    /\ \E d \in TwoChoices(i, alone[i].state.buffer) :
          LET sn   == sent[i].samplenum + 1
              mine == decode_step(attrs[cell_of(i)], d, sn)
              solo == decode_step(alone[i].state, d, sn)
          IN  /\ attrs' = [attrs EXCEPT ![cell_of(i)] = mine.state]
              /\ sent' = [sent EXCEPT ![i] =
                            [samplenum |-> sn, out |-> @.out \o mine.out]]
              /\ alone' = [alone EXCEPT ![i] =
                            [state |-> solo.state, out |-> @.out \o solo.out]]
    /\ UNCHANGED <<decoder_vars, trace_vars, env_vars, replay_vars, ck_vars>>

NextTwo == \E i \in Instances : TwoData(i)

SpecTwo == Init /\ [][NextTwo]_vars

(* ------------------------------------------------------------------ *)
(* Feeding one sequence of events twice, with reset() before each run  *)
(* ------------------------------------------------------------------ *)
\* the events evs with their sample numbers counted from b
Relative(evs, b) ==
    [k \in 1..Len(evs) |-> [evs[k] EXCEPT !.ss = @ - b, !.es = @ - b]]

\* reset(), then the first run begins
ReplayStart ==
    /\ run = 0
    /\ reset
    /\ observe_reset
    /\ run' = 1
    /\ base' = samplenum
    /\ tape' = << >>
    /\ todo' = << >>
    /\ out1' = << >>
    /\ out2' = << >>
    /\ UNCHANGED <<resets, ck_vars, two_vars>>

\* first run: a byte event is fed and recorded
ReplayRecord ==
    /\ run = 1
    /\ Len(tape) < MaxTape
    /\ Len(buffer) < MaxBuf
    /\ buffer = << >> => started < MaxFrames
    /\ \E d \in Choices(buffer) :
          /\ decode(d)
          /\ observe(d)
          /\ tape' = Append(tape, d)
    /\ out1' = out1 \o Relative(emitted', base)
    /\ UNCHANGED <<todo, run, out2, base, ck_vars, two_vars>>

\* reset() again, from whatever state the first run left; the second run begins
ReplayAgain ==
    /\ run = 1
    /\ tape # << >>
    /\ Len(buffer) <= IdleWindow
    /\ reset
    /\ observe_reset
    /\ run' = 2
    /\ base' = samplenum
    /\ todo' = tape
    /\ out2' = << >>
    /\ UNCHANGED <<tape, out1, resets, ck_vars, two_vars>>

\* second run: the next recorded event is fed again
ReplayFeed ==
    /\ run = 2
    /\ todo # << >>
    /\ decode(Head(todo))
    /\ observe(Head(todo))
    /\ todo' = Tail(todo)
    /\ out2' = out2 \o Relative(emitted', base)
    /\ UNCHANGED <<tape, run, out1, base, ck_vars, two_vars>>

NextReplay == ReplayStart \/ ReplayRecord \/ ReplayAgain \/ ReplayFeed

SpecReplay == Init /\ [][NextReplay]_vars

(* ------------------------------------------------------------------ *)
(* decode_message on frames with one bit flipped                       *)
(* ------------------------------------------------------------------ *)
\* message kinds of the payloads under study
CkKinds == {0, 1, 2}

\* the 112-byte payload of the given kind, length word 114 in front
CkPayload(kind) ==
    [n \in 1..CHECKSUM_LEN |->
        CASE n = 1 -> FRAME_LEN % 256
          [] n = 2 -> FRAME_LEN \div 256
          [] n = 3 -> kind
          [] OTHER -> PayloadByte(kind, n - 1)]

\* the frame for payload p: word 56 = calc_checksum(p)
CkFrame(p) == p \o <<calc_checksum(p) % 256, calc_checksum(p) \div 256>>

\* frame with bit number bit of the byte at offset pos inverted
FlipBit(frame, pos, bit) ==
    [frame EXCEPT ![pos + 1] = IF Bit(@, bit) = 1 THEN @ - (2 ^ bit) ELSE @ + (2 ^ bit)]

InitChecksum ==
    /\ InitDecoder
    /\ InitEnv
    /\ tape = << >>
    /\ todo = << >>
    /\ run = 0
    /\ out1 = << >>
    /\ out2 = << >>
    /\ base = 0
    /\ ck_frame \in {CkFrame(CkPayload(kind)) : kind \in CkKinds}
    /\ ck_flip = << >>
    /\ ck_fold = None
    /\ InitInstances

\* one bit of bytes 0..111 is flipped, word 56 is left as it was
CkFlip ==
    /\ ck_flip = << >>
    /\ emitted = << >>
    /\ \E pos \in 0..(CHECKSUM_LEN - 1), bit \in 0..7 :
          /\ ck_frame' = FlipBit(ck_frame, pos, bit)
          /\ ck_flip' = <<pos, bit>>
    /\ UNCHANGED <<decoder_vars, trace_vars, env_vars, replay_vars, ck_fold, two_vars>>

\* decode_message is applied to the frame
CkDecode ==
    /\ emitted = << >>
    /\ emitted' = decode_message(ck_frame, 0, 0)
    /\ calls' = <<CallRecord(ck_frame, 0, 0)>>
    /\ ck_fold' = calc_checksum(ck_frame)
    /\ UNCHANGED <<decoder_vars, lastev, env_vars, replay_vars, ck_frame, ck_flip, two_vars>>

NextChecksum == CkFlip \/ CkDecode

SpecChecksum == InitChecksum /\ [][NextChecksum]_vars

(* ------------------------------------------------------------------ *)
(* Vocabulary of the properties                                        *)
(* ------------------------------------------------------------------ *)
\* the length word in front of the bytes delivered since the last empty state
StreamLength == unpack_H(stream, 0)

\* the assembler state is empty/unset
StateEmpty == buffer = << >> /\ expected_length = None /\ start_sample = None

\* evs is one decode pass: ids 1..30, then 32 or 33, then 0
IsPass(evs) ==
    /\ Len(evs) = 32
    /\ \A k \in 1..30 : evs[k].id = k
    /\ evs[31].id \in {32, 33}
    /\ evs[32].id = 0

\* the last step handed exactly the bytes data to decode_message, once
HandedOver(data) == Len(calls) = 1 /\ calls[1].data = data

(* ------------------------------------------------------------------ *)
(* C1                                                                  *)
(* ------------------------------------------------------------------ *)
\* C1 as claimed: for every length L in the first two bytes, fewer than L bytes
\* give no event, and the L-th byte gives exactly one decode pass (field events
\* and the summary) and leaves the state empty.
C1_AsClaimed ==
    (lastev = "data" /\ Len(stream) >= 2) =>
        /\ Len(stream) < StreamLength => emitted = << >>
        /\ Len(stream) = StreamLength =>
              /\ Len(calls) = 1
              /\ IsPass(emitted)
              /\ StateEmpty

\* C1 amended: for every length L >= 114 in the first two bytes, the first L-1
\* bytes give no event and no parser call, and the L-th byte gives exactly one
\* decode pass (30 field events, the checksum event, the summary) and leaves
\* buffer empty, expected length and start sample unset.
C1_Boundary ==
    (Len(stream) >= 2 /\ StreamLength >= FRAME_LEN) =>
        /\ Len(stream) < StreamLength =>
              /\ emitted = << >>
              /\ calls = << >>
              /\ buffer = stream
        /\ (lastev = "data" /\ Len(stream) = StreamLength) =>
              /\ HandedOver(stream)
              /\ IsPass(emitted)
              /\ StateEmpty

\* a frame of 115 bytes has just completed with one pass
C1_Witness ==
    /\ lastev = "data"
    /\ Len(stream) = FRAME_LEN + 1
    /\ StreamLength = FRAME_LEN + 1
    /\ IsPass(emitted)
    /\ StateEmpty

(* ------------------------------------------------------------------ *)
(* C2                                                                  *)
(* ------------------------------------------------------------------ *)
\* C2 as claimed: for every expected length 0..65535, a buffer that has reached
\* its fixed expected length is handed to the parser in that same step and the
\* state is reset; between events no buffer is as long as its expected length.
C2_AsClaimed ==
    /\ ~(expected_length # None /\ Len(buffer) >= expected_length)
    /\ (lastev = "data" /\ Len(stream) >= 2 /\ Len(stream) >= StreamLength) =>
          (HandedOver(stream) /\ StateEmpty)

(* ------------------------------------------------------------------ *)
(* C3                                                                  *)
(* ------------------------------------------------------------------ *)
\* C3 as claimed: every byte sequence handed to decode_message is exactly 114
\* bytes long.
C3_AsClaimed ==
    \A i \in 1..Len(calls) : Len(calls[i].data) = FRAME_LEN

\* C3 amended: every byte sequence the parser unpacks into words is exactly 114
\* bytes long, namely the first 114 bytes of the buffer handed to it, and the
\* parser emits events exactly when it unpacks; the handed buffer itself may be
\* shorter (nothing is unpacked) or longer than 114 bytes.
C3_ParsedLength ==
    /\ \A i \in 1..Len(calls) :
          /\ Len(calls[i].unpacked) <= 1
          /\ \A j \in 1..Len(calls[i].unpacked) :
                /\ Len(calls[i].unpacked[j]) = FRAME_LEN
                /\ calls[i].unpacked[j] = SubSeq(calls[i].data, 1, FRAME_LEN)
          /\ (emitted # << >>) <=> (calls[i].unpacked # << >>)
          /\ (Len(calls[i].data) < FRAME_LEN) <=> (calls[i].unpacked = << >>)
    /\ calls = << >> => emitted = << >>

\* the parser was handed 115 bytes and unpacked the first 114
C3_Witness ==
    /\ Len(calls) = 1
    /\ Len(calls[1].data) = FRAME_LEN + 1
    /\ Len(calls[1].unpacked) = 1
    /\ emitted # << >>

(* ------------------------------------------------------------------ *)
(* C4                                                                  *)
(* ------------------------------------------------------------------ *)
\* C4: every frame of at least 114 bytes handed to the parser, checksum valid
\* or not, yields exactly 32 events with ids 1, 2, ..., 30, then 32 or 33, then
\* 0; the summary is last and no field id is skipped or repeated.
C4_EventOrder ==
    \A i \in 1..Len(calls) :
        Len(calls[i].data) >= FRAME_LEN => IsPass(emitted)

\* a frame with a wrong checksum word was decoded
C4_Witness ==
    /\ Len(calls) = 1
    /\ Len(emitted) = 32
    /\ emitted[31].id = 33
    /\ emitted[32].id = 0

(* ------------------------------------------------------------------ *)
(* C5                                                                  *)
(* ------------------------------------------------------------------ *)
\* word 56 of the handed bytes
ReceivedWord(data) == data[CHECKSUM_LEN + 1] + (256 * data[CHECKSUM_LEN + 2])

\* C5: the checksum event has id 32 exactly when the XOR of words 0..55 (the
\* first 112 bytes) equals word 56, and id 33 otherwise; the value reported as
\* computed is that XOR, so neither word 56 nor a byte past 114 enters it; the
\* summary says OK exactly when id 32 was emitted.
C5_ChecksumVerdict ==
    \A i \in 1..Len(calls) :
        Len(calls[i].data) >= FRAME_LEN =>
            LET fold     == SenderFold(calls[i].data, CHECKSUM_LEN \div 2)
                received == ReceivedWord(calls[i].data)
            IN  /\ Len(emitted) = 32
                /\ (emitted[31].id = 32) <=> (fold = received)
                /\ (emitted[31].id = 33) <=> (fold # received)
                /\ emitted[31].id = 32 => emitted[31].text = <<received>>
                /\ emitted[31].id = 33 => emitted[31].text = <<received, fold>>
                /\ (emitted[32].label =
                      "Mercator Origins V1 Message (Length: %d, Type: %d, Checksum: OK)")
                   <=> (emitted[31].id = 32)

\* a 115-byte buffer with a nonzero byte past 114 was decoded as checksum-valid
C5_Witness ==
    /\ Len(calls) = 1
    /\ Len(calls[1].data) = FRAME_LEN + 1
    /\ calls[1].data[FRAME_LEN + 1] # 0
    /\ ReceivedWord(calls[1].data) # 0
    /\ Len(emitted) = 32
    /\ emitted[31].id = 32

(* ------------------------------------------------------------------ *)
(* C6                                                                  *)
(* ------------------------------------------------------------------ *)
\* C6 as claimed: for every length L < 114 in the first two bytes, 0 and 1
\* included, the undersized buffer is handed to the parser, which emits
\* nothing, and the state is reset for the next frame.
C6_AsClaimed ==
    (lastev = "data" /\ Len(stream) >= 2 /\ StreamLength < FRAME_LEN
        /\ Len(stream) >= StreamLength) =>
        /\ HandedOver(stream)
        /\ emitted = << >>
        /\ StateEmpty

(* ------------------------------------------------------------------ *)
(* C7                                                                  *)
(* ------------------------------------------------------------------ *)
\* C7: a frame whose word 56 is calc_checksum of its 112-byte payload is
\* reported checksum-valid (id 32), and the same frame with any single bit of
\* bytes 0..111 flipped and word 56 kept is reported checksum-invalid (id 33).
C7_SingleBitFlip ==
    emitted # << >> =>
        /\ IsPass(emitted)
        /\ ck_flip = << >> => emitted[31].id = 32
        /\ ck_flip # << >> => emitted[31].id = 33

\* the top bit of byte 111 was flipped and the frame reported invalid
C7_Witness ==
    /\ ck_flip = <<CHECKSUM_LEN - 1, 7>>
    /\ Len(emitted) = 32
    /\ emitted[31].id = 33

(* ------------------------------------------------------------------ *)
(* C8                                                                  *)
(* ------------------------------------------------------------------ *)
\* C8: reset() then a sequence of events, then reset() again from whatever
\* state that left and the same sequence again, give the same output events
\* (ids, texts, and sample ranges counted from the start of the run).
C8_ReplayDeterministic ==
    run = 2 =>
        /\ Len(out2) <= Len(out1)
        /\ out2 = SubSeq(out1, 1, Len(out2))
        /\ todo = << >> => out2 = out1

\* a frame and the start of the next were fed twice; each run decoded the frame
C8_Witness ==
    /\ run = 2
    /\ todo = << >>
    /\ Len(tape) > FRAME_LEN
    /\ buffer # << >>
    /\ Len(out1) = 32
    /\ out2 = out1

(* ------------------------------------------------------------------ *)
(* C9                                                                  *)
(* ------------------------------------------------------------------ *)
\* C9: nothing of a completed buffer is kept; a stream that is a concatenation
\* of well-formed 114-byte frames (word 0 = 114) gives one decode pass per
\* frame, the pass of a frame decoding exactly the bytes of that frame.
C9_NoCarryOver ==
    /\ (lastev = "data" /\ calls # << >>) => buffer = << >>
    /\ wellformed =>
          /\ passes = chunks
          /\ Len(srcframe) < FRAME_LEN => (calls = << >> /\ buffer = srcframe)
          /\ (lastev = "data" /\ Len(srcframe) = FRAME_LEN) =>
                /\ HandedOver(srcframe)
                /\ IsPass(emitted)
                /\ buffer = << >>

\* the second of two well-formed frames has just been decoded
C9_Witness ==
    /\ wellformed
    /\ chunks = 2
    /\ passes = 2
    /\ lastev = "data"
    /\ HandedOver(srcframe)
    /\ IsPass(emitted)

(* ------------------------------------------------------------------ *)
(* C10                                                                 *)
(* ------------------------------------------------------------------ *)
\* C10 as claimed: the start sample is set exactly when the buffer is
\* non-empty, and every event of a decode pass carries the range from the
\* sample of the event that delivered the first byte of the frame to the sample
\* of the event that delivered its last byte, also when events without a data
\* byte arrive between frames.
C10_AsClaimed ==
    /\ (start_sample # None) <=> (buffer # << >>)
    /\ \A k \in 1..Len(emitted) :
          emitted[k].ss = first_ts /\ emitted[k].es = samplenum

(* ------------------------------------------------------------------ *)
(* C11                                                                 *)
(* ------------------------------------------------------------------ *)
\* the frame of the scenario: word 0 = 114, word 1 = 1, word 2 = 150, every
\* other payload word zero, word 56 = the XOR of words 0..55
ScenarioPayload ==
    [n \in 1..CHECKSUM_LEN |->
        CASE n = 1 -> FRAME_LEN
          [] n = 3 -> 1
          [] n = 5 -> 150
          [] OTHER -> 0]

ScenarioFold == SenderFold(ScenarioPayload, CHECKSUM_LEN \div 2)

ScenarioFrame == ScenarioPayload \o <<ScenarioFold % 256, ScenarioFold \div 256>>

\* the events of evs with the given id
WithId(evs, id) == {k \in 1..Len(evs) : evs[k].id = id}

\* C11: every frame of at least 114 bytes handed to the parser gives exactly one
\* id 3 event, whose value is word 2 / 10 (integer part and tenths); the
\* scenario frame fed one byte at a time from the empty state gives 15.0 there,
\* exactly one id 32 event reporting the XOR of words 0..55, and no id 33.
C11_EndToEnd ==
    /\ \A i \in 1..Len(calls) :
          Len(calls[i].data) >= FRAME_LEN =>
              LET word2 == unpack_H(calls[i].data, 2)
              IN  /\ Cardinality(WithId(emitted, 3)) = 1
                  /\ \A k \in WithId(emitted, 3) :
                        /\ Len(emitted[k].text) = 2
                        /\ emitted[k].text[2] \in 0..9
                        /\ (10 * emitted[k].text[1]) + emitted[k].text[2] = word2
    /\ (lastev = "data" /\ stream = ScenarioFrame) =>
          /\ HandedOver(ScenarioFrame)
          /\ Cardinality(WithId(emitted, 3)) = 1
          /\ \A k \in WithId(emitted, 3) : emitted[k].text = <<15, 0>>
          /\ Cardinality(WithId(emitted, 32)) = 1
          /\ \A k \in WithId(emitted, 32) : emitted[k].text = <<ScenarioFold>>
          /\ WithId(emitted, 33) = {}

\* the scenario frame has just been decoded: depth 15.0, checksum OK
C11_Witness ==
    /\ lastev = "data"
    /\ stream = ScenarioFrame
    /\ HandedOver(ScenarioFrame)
    /\ emitted[3].text = <<15, 0>>
    /\ emitted[31].id = 32
    /\ emitted[31].text = <<229>>

(* ------------------------------------------------------------------ *)
(* C12                                                                 *)
(* ------------------------------------------------------------------ *)
\* C12: every emitted event has an id of the set {0, 1, ..., 30, 32, 33}; the
\* declared id 31 is never emitted; ids 32 and 33 are never both emitted in the
\* same decode pass.
C12_EmittedIds ==
    /\ \A k \in 1..Len(emitted) :
          /\ emitted[k].id \in annotations
          /\ emitted[k].id \in (0..30) \cup {32, 33}
          /\ emitted[k].id # 31
    /\ ~(WithId(emitted, 32) # {} /\ WithId(emitted, 33) # {})

\* a pass with id 32 and without ids 31 and 33 was emitted
C12_Witness ==
    /\ Len(emitted) = 32
    /\ WithId(emitted, 32) = {31}
    /\ WithId(emitted, 31) = {}
    /\ WithId(emitted, 33) = {}

(* ------------------------------------------------------------------ *)
(* C14                                                                 *)
(* ------------------------------------------------------------------ *)
\* C14: between byte events the expected length is unset exactly while the
\* buffer holds fewer than 2 bytes; when set it equals buffer[0] + 256 *
\* buffer[1]; once set it keeps its value through every step that is not a
\* reset() and does not complete the frame.
C14_LengthFixedOnce ==
    /\ [](/\ (expected_length = None) <=> (Len(buffer) < 2)
          /\ expected_length # None =>
                expected_length = buffer[1] + (256 * buffer[2]))
    /\ [][(expected_length # None /\ lastev' # "reset" /\ calls' = << >>)
            => expected_length' = expected_length]_vars

\* a length word with a nonzero high byte is set and bytes follow it
C14_Witness ==
    /\ expected_length = FRAME_LEN + 256
    /\ Len(buffer) > 2
    /\ buffer[1] = FRAME_LEN
    /\ buffer[2] = 1

(* ------------------------------------------------------------------ *)
(* C16                                                                 *)
(* ------------------------------------------------------------------ *)
\* the larger of two numbers
Max(a, b) == IF a >= b THEN a ELSE b

\* C16: with one byte per event, the buffer handed to the parser for a nonzero
\* length word L is exactly max(L, 2) bytes long; it is longer than L only when
\* L = 1; for L >= 2 it is the L bytes delivered since the empty state, so no
\* byte beyond the expected length is handed over and discarded.
C16_HandedLength ==
    \A i \in 1..Len(calls) :
        LET data == calls[i].data
            L    == unpack_H(data, 0)
        IN  /\ Len(data) >= 2
            /\ L # 0
            /\ Len(data) = Max(L, 2)
            /\ Len(data) > L => L = 1
            /\ L >= 2 => (Len(data) = L /\ data = stream)

\* a length word of 1 was completed by the second byte and both were handed over
C16_Witness ==
    /\ lastev = "data"
    /\ HandedOver(<<1, 0>>)
    /\ StateEmpty

(* ------------------------------------------------------------------ *)
(* C17                                                                 *)
(* ------------------------------------------------------------------ *)
\* C17: once the first two bytes of a frame are both zero, the expected length
\* is 0 and stays 0 through every step that is not a reset(); in that state the
\* parser is not invoked and no event is emitted, the buffer holds at least the
\* two zero bytes, and every such step only lengthens the buffer or leaves it
\* as it is: only reset() returns the state to empty.
C17_ZeroLengthStuck ==
    /\ []((Len(stream) >= 2 /\ stream[1] = 0 /\ stream[2] = 0) =>
            /\ expected_length = 0
            /\ buffer = stream)
    /\ [](expected_length = 0 =>
            /\ calls = << >>
            /\ emitted = << >>
            /\ Len(buffer) >= 2
            /\ buffer[1] = 0 /\ buffer[2] = 0)
    /\ [][(expected_length = 0 /\ lastev' # "reset") =>
            /\ expected_length' = 0
            /\ calls' = << >>
            /\ emitted' = << >>
            /\ Len(buffer') >= Len(buffer)
            /\ SubSeq(buffer', 1, Len(buffer)) = buffer]_vars

\* after two zero bytes the buffer has grown past a whole frame without a pass
C17_Witness ==
    /\ expected_length = 0
    /\ Len(buffer) > FRAME_LEN
    /\ passes = 0
    /\ calls = << >>

(* ------------------------------------------------------------------ *)
(* C19                                                                 *)
(* ------------------------------------------------------------------ *)
\* C19: an event whose DATA value is None leaves the buffer and the expected
\* length exactly as they were, whatever they were; it hands nothing to the
\* parser, so it completes no frame, and it emits no output event.
C19_NoDataEvent ==
    [][(nodata' = nodata + 1) =>
          /\ buffer' = buffer
          /\ expected_length' = expected_length
          /\ calls' = << >>
          /\ emitted' = << >>
          /\ passes' = passes]_vars

\* an event without data arrived while two bytes of a frame were buffered
C19_Witness ==
    /\ lastev = "nodata"
    /\ nodata = 1
    /\ Len(buffer) = 2
    /\ expected_length = FRAME_LEN
    /\ emitted = << >>

(* ------------------------------------------------------------------ *)
(* C15                                                                 *)
(* ------------------------------------------------------------------ *)
\* C15: for every 114-byte frame, calc_checksum over all 57 words (the XOR of
\* words 0..56) is 0 exactly when decode_message reports the frame's checksum
\* valid (id 32), and nonzero exactly when it reports it invalid (id 33).
C15_WholeFrameFold ==
    emitted # << >> =>
        /\ Len(ck_frame) = FRAME_LEN
        /\ ck_fold = SenderFold(ck_frame, NWORDS)
        /\ (ck_fold = 0) <=> (emitted[31].id = 32)
        /\ (ck_fold # 0) <=> (emitted[31].id = 33)

\* an intact ramp frame was decoded: it folds to 0 and is reported
\* valid
C15_Witness ==
    /\ ck_flip = << >>
    /\ ck_frame[3] = 2
    /\ ck_fold = 0
    /\ Len(emitted) = 32
    /\ emitted[31].id = 32

(* ------------------------------------------------------------------ *)
(* C18                                                                 *)
(* ------------------------------------------------------------------ *)
\* a frame is in progress and its length word is nonzero: already read as
\* nonzero, or not yet read with a nonzero first byte
InProgressNonzero ==
    /\ buffer # << >>
    /\ expected_length # 0
    /\ expected_length = None => buffer[1] # 0

\* the last step completed a frame: the buffer was handed to the parser and
\* the state is empty/unset again
JustCompleted == lastev = "data" /\ calls # << >> /\ StateEmpty

\* C18: while the byte source keeps delivering, every frame in progress whose
\* length word L is nonzero eventually completes, the state returning to
\* empty/unset; the completion comes with data byte number max(L, 2) of the
\* frame, not before and not after.
C18_EventuallyCompletes ==
    /\ [](JustCompleted => Len(stream) = Max(StreamLength, 2))
    /\ []((Len(stream) >= 2 /\ StreamLength # 0 /\ lastev = "data"
             /\ Len(stream) >= Max(StreamLength, 2)) => JustCompleted)
    /\ InProgressNonzero ~> JustCompleted

\* a frame of 113 bytes has completed with its 113th byte
C18_Witness ==
    /\ JustCompleted
    /\ StreamLength = FRAME_LEN - 1
    /\ Len(stream) = FRAME_LEN - 1
    /\ HandedOver(stream)

====
